---- MODULE Spec2Model ----
(***************************************************************************)
(* A model of package_llvm.py: the Version value, the Retries wrapper, the *)
(* dependency audit (CheckDependencies / CheckLlvm) and the publish        *)
(* protocol (UploadLlvm as called by Main) against a remote release store. *)
(***************************************************************************)
EXTENDS Integers, Sequences, FiniteSets, TLC

VARIABLES
  \* ---- Main / UploadLlvm and the remote release store
  args,            \* the parsed command line: [version, release_candidate]
  releases,        \* remote: the releases of the project, as the list request returns them
  next_id,         \* remote: the next id the store hands out
  pc,              \* position of the process inside Main / UploadLlvm
  response,        \* UploadLlvm: the body of the list response being scanned
  loop_i,          \* UploadLlvm: index of the release the outer for loop is at
  del_asset,       \* UploadLlvm: asset[ 'id' ] of the pending delete request
  upload_url,      \* UploadLlvm: the local upload_url
  req_log,         \* the remote requests issued by the current process, in order
  start_releases,  \* the remote releases when the current process started
  runs,            \* number of processes started so far
  ended,           \* the ways the earlier processes ended
  prev_end,        \* how the process before the current one ended
  prev_reqs,       \* the kinds of the requests of the process before the current one
  \* ---- Retries
  op_plan,         \* what the wrapped function does on its i-th invocation
  nb_retries,      \* Retries: nb_retries
  calls,           \* number of invocations of the wrapped function
  sleeps,          \* the time.sleep durations, in order
  rpc,             \* position of Retries: looping, returned, exited or raised
  \* ---- Version comparison
  va, vb, vc,      \* three operands
  cmp,             \* the results of the comparisons of the operands
  text,            \* the string a Version is constructed from
  rt,              \* the Version of text, its format, and the Version of the format
  \* ---- CheckLlvm / CheckDependencies
  versions,        \* the defaultdict( list ), in insertion order
  apc,             \* position inside CheckLlvm
  deps_out,        \* the dependency lists printed, one per audited binary
  report,          \* the lines printed after 'Maximum versions required:'
  dumps            \* what objdump -p gave, one per CheckDependencies call

pubVars == << args, releases, next_id, pc, response, loop_i, del_asset,
              upload_url, req_log, start_releases, runs, ended, prev_end,
              prev_reqs >>
retVars == << op_plan, nb_retries, calls, sleeps, rpc >>
verVars == << va, vb, vc, cmp, text, rt >>
audVars == << versions, apc, deps_out, report, dumps >>
vars == << pubVars, retVars, verVars, audVars >>

(***************************************************************************)
(* Bounds of the model.                                                    *)
(***************************************************************************)
MaxInitReleases == 2  \* releases the remote holds before the first run
MaxRuns == 3          \* processes run one after the other
MaxCalls == 5         \* length of the wrapped function's plan
MaxComponent == 2     \* version components 0..MaxComponent in comparisons
MaxLines == 2         \* lines of one metadata dump

(***************************************************************************)
(* Program constants.                                                      *)
(***************************************************************************)
RETRY_INTERVAL == 10
max_retries == 3

\* Python's None for the release candidate and for upload_url.
NoRC == [ given |-> FALSE, n |-> 0 ]
RC(n) == [ given |-> TRUE, n |-> n ]
NoneUrl == [ rel |-> 0, tmpl |-> FALSE ]

\* bool( x ) of an optional int: None and 0 are falsy.
Truthy(rc) == rc.given /\ rc.n # 0

(***************************************************************************)
(* GetBundleVersion and the names Main and UploadLlvm derive from it.      *)
(***************************************************************************)
GetBundleVersion(a) ==
  IF Truthy(a.release_candidate)
    THEN a.version \o "-rc" \o ToString(a.release_candidate.n)
    ELSE a.version

TARGET == "x86_64-unknown-linux-gnu"

\* Main: os.path.basename( bundle_path ) is archive_name.
BundleName(a) ==
  "clang+llvm-" \o GetBundleVersion(a) \o "-" \o TARGET \o ".tar.xz"

Prerelease(a) == a.release_candidate.given

ReleaseName(a) ==
  IF Truthy(a.release_candidate)
    THEN "LLVM and Clang " \o a.version \o " RC" \o ToString(a.release_candidate.n)
    ELSE "LLVM and Clang " \o a.version

\* The command lines tried: no --release-candidate, and the numbers 0 and 1.
RCNumbers == { 0, 1 }

ArgsPool ==
  { [ version |-> "18.1.0", release_candidate |-> rc ] :
      rc \in { NoRC } \cup { RC(n) : n \in RCNumbers } }

(***************************************************************************)
(* The remote release store before the first run.  Tags are unique and an  *)
(* asset name occurs at most once per release, as the hosting platform     *)
(* keeps them.                                                             *)
(***************************************************************************)
OTHER_TAG == "17.0.1"
STALE_TAG == "18.1.0-rc3"
OTHER_ASSET == "SHA256SUMS"

\* The tags a release may carry before the run publishing `a`.
TagPool(a) == { GetBundleVersion(a), STALE_TAG, OTHER_TAG }

\* The asset names a release may hold before the run publishing `a`.
AssetNameLists(a) ==
  { << >>, << BundleName(a) >>, << OTHER_ASSET >>,
    << OTHER_ASSET, BundleName(a) >>, << BundleName(a), OTHER_ASSET >> }

MkUrl(id) == [ rel |-> id, tmpl |-> TRUE ]

MkRelease(id, tag, names) ==
  [ id |-> id, tag_name |-> tag, name |-> "existing", prerelease |-> FALSE,
    upload_url |-> MkUrl(id),
    assets |-> [ j \in 1..Len(names) |-> [ id |-> 10 * id + j, name |-> names[j] ] ] ]

IsInjective(f) == \A i, j \in DOMAIN f : f[i] = f[j] => i = j

InitialRemotes(a) ==
  UNION { { [ i \in 1..n |-> MkRelease(i, tags[i], names[i]) ] :
              tags \in { t \in [ 1..n -> TagPool(a) ] : IsInjective(t) },
              names \in [ 1..n -> AssetNameLists(a) ] } :
          n \in 0..MaxInitReleases }

\* Ids the store hands out after the first run starts lie above the initial ones.
FirstNewId == 10 * (MaxInitReleases + 1)

(***************************************************************************)
(* Reading the remote state.                                               *)
(***************************************************************************)
\* The positions of the assets of `release` named `name`.
AssetsNamed(release, name) ==
  { j \in 1..Len(release.assets) : release.assets[j].name = name }

ReleasesTagged(rels, tag) == { i \in 1..Len(rels) : rels[i].tag_name = tag }

\* Number of assets named `name` over the releases of `rels` tagged `tag`.
RECURSIVE CountFrom(_, _, _, _)
CountFrom(rels, tag, name, i) ==
  IF i > Len(rels) THEN 0
  ELSE (IF rels[i].tag_name = tag THEN Cardinality(AssetsNamed(rels[i], name)) ELSE 0)
       + CountFrom(rels, tag, name, i + 1)

BundleAssetCount(rels, a) == CountFrom(rels, GetBundleVersion(a), BundleName(a), 1)

(***************************************************************************)
(* UploadLlvm, lines 209-234: the scan of the listed releases, from the    *)
(* release at index i on, up to the next remote request.  It ends at a     *)
(* delete request (a release with the tag holds an asset with the name),   *)
(* or past the last release at the create or the upload request.           *)
(***************************************************************************)
\* A variant with a plausible slip: the first asset is taken, whatever its name.
FirstAssetAny(release, name) == 1

FirstAssetNamed(release, name) ==
  CHOOSE j \in AssetsNamed(release, name) :
    \A k \in AssetsNamed(release, name) : j <= k

\* Variants of the scan with a plausible slip: one that takes every asset for
\* another file and never deletes, one that drops the upload endpoint of the
\* release it found, one that does not compare the tag.
RECURSIVE ScanIgnoresTag(_, _, _, _)
ScanIgnoresTag(resp, i, url, a) ==
  IF i > Len(resp)
    THEN [ pc |-> IF url = NoneUrl THEN "create" ELSE "upload",
           loop_i |-> i, del_asset |-> 0, upload_url |-> url ]
  ELSE IF AssetsNamed(resp[i], BundleName(a)) = {}
    THEN ScanIgnoresTag(resp, i + 1, resp[i].upload_url, a)
  ELSE [ pc |-> "delete", loop_i |-> i,
         del_asset |-> resp[i].assets[FirstAssetNamed(resp[i], BundleName(a))].id,
         upload_url |-> resp[i].upload_url ]

RECURSIVE ScanNeverDeletes(_, _, _, _)
ScanNeverDeletes(resp, i, url, a) ==
  IF i > Len(resp)
    THEN [ pc |-> IF url = NoneUrl THEN "create" ELSE "upload",
           loop_i |-> i, del_asset |-> 0, upload_url |-> url ]
  ELSE IF resp[i].tag_name # GetBundleVersion(a)
    THEN ScanNeverDeletes(resp, i + 1, url, a)
  ELSE ScanNeverDeletes(resp, i + 1, resp[i].upload_url, a)

RECURSIVE ScanForgetsUrl(_, _, _, _)
ScanForgetsUrl(resp, i, url, a) ==
  IF i > Len(resp)
    THEN [ pc |-> "create", loop_i |-> i, del_asset |-> 0, upload_url |-> NoneUrl ]
  ELSE IF resp[i].tag_name # GetBundleVersion(a)
    THEN ScanForgetsUrl(resp, i + 1, url, a)
  ELSE IF AssetsNamed(resp[i], BundleName(a)) = {}
    THEN ScanForgetsUrl(resp, i + 1, resp[i].upload_url, a)
  ELSE [ pc |-> "delete", loop_i |-> i,
         del_asset |-> resp[i].assets[FirstAssetNamed(resp[i], BundleName(a))].id,
         upload_url |-> resp[i].upload_url ]

\* A variant with a plausible slip: the tag is compared with args.version, not
\* with the bundle version.
RECURSIVE ScanComparesVersion(_, _, _, _)
ScanComparesVersion(resp, i, url, a) ==
  IF i > Len(resp)
    THEN [ pc |-> IF url = NoneUrl THEN "create" ELSE "upload",
           loop_i |-> i, del_asset |-> 0, upload_url |-> url ]
  ELSE IF resp[i].tag_name # a.version
    THEN ScanComparesVersion(resp, i + 1, url, a)
  ELSE IF AssetsNamed(resp[i], BundleName(a)) = {}
    THEN ScanComparesVersion(resp, i + 1, resp[i].upload_url, a)
  ELSE [ pc |-> "delete", loop_i |-> i,
         del_asset |-> resp[i].assets[FirstAssetNamed(resp[i], BundleName(a))].id,
         upload_url |-> resp[i].upload_url ]

RECURSIVE ScanReleases(_, _, _, _)
ScanReleases(resp, i, url, a) ==
  IF i > Len(resp)
    THEN [ pc |-> IF url = NoneUrl THEN "create" ELSE "upload",
           loop_i |-> i, del_asset |-> 0, upload_url |-> url ]
  ELSE IF resp[i].tag_name # GetBundleVersion(a)
    THEN ScanReleases(resp, i + 1, url, a)
  ELSE IF AssetsNamed(resp[i], BundleName(a)) = {}
    THEN ScanReleases(resp, i + 1, resp[i].upload_url, a)
  ELSE [ pc |-> "delete", loop_i |-> i,
         del_asset |-> resp[i].assets[FirstAssetNamed(resp[i], BundleName(a))].id,
         upload_url |-> resp[i].upload_url ]

(***************************************************************************)
(* The remote store's effect of the three writing requests.                *)
(***************************************************************************)
RECURSIVE WithoutAsset(_, _)
WithoutAsset(assets, id) ==
  IF assets = << >> THEN << >>
  ELSE IF Head(assets).id = id THEN WithoutAsset(Tail(assets), id)
  ELSE << Head(assets) >> \o WithoutAsset(Tail(assets), id)

RemoteDelete(rels, id) ==
  [ i \in 1..Len(rels) |-> [ rels[i] EXCEPT !.assets = WithoutAsset(@, id) ] ]

RemoteCreate(rels, id, a) ==
  << [ id |-> id, tag_name |-> GetBundleVersion(a), name |-> ReleaseName(a),
       prerelease |-> Prerelease(a), upload_url |-> MkUrl(id), assets |-> << >> ] >>
  \o rels

RemoteUpload(rels, url, id, name) ==
  [ i \in 1..Len(rels) |->
      IF rels[i].id = url.rel
        THEN [ rels[i] EXCEPT !.assets = Append(@, [ id |-> id, name |-> name ]) ]
        ELSE rels[i] ]

\* upload_url.replace( '{?name,label}', '' )
StripTemplate(url) == [ url EXCEPT !.tmpl = FALSE ]

LogEntry(req, id, status) == [ req |-> req, id |-> id, status |-> status ]

\* The kinds of the requests of a log, in order, and how many are of one kind.
Kinds(log) == [ i \in 1..Len(log) |-> log[i].req ]
CountReq(log, req) == Cardinality({ i \in 1..Len(log) : log[i].req = req })

\* The statuses the remote may answer with.
ListStatuses == { 200, 500 }
DeleteStatuses == { 204, 404 }
CreateStatuses == { 201, 422 }
UploadStatuses == { 201, 502 }

(***************************************************************************)
(* The parts of the state a specification does not exercise rest at these  *)
(* values.                                                                 *)
(***************************************************************************)
PubIdle ==
  /\ args = [ version |-> "18.1.0", release_candidate |-> NoRC ]
  /\ releases = << >>
  /\ next_id = FirstNewId
  /\ pc = "off"
  /\ response = << >>
  /\ loop_i = 0
  /\ del_asset = 0
  /\ upload_url = NoneUrl
  /\ req_log = << >>
  /\ start_releases = << >>
  /\ runs = 0
  /\ ended = {}
  /\ prev_end = "idle"
  /\ prev_reqs = << >>

RetIdle ==
  /\ op_plan = << >>
  /\ nb_retries = 0
  /\ calls = 0
  /\ sleeps = << >>
  /\ rpc = "off"

VerIdle ==
  /\ va = 0
  /\ vb = 0
  /\ vc = 0
  /\ cmp = [ done |-> FALSE ]
  /\ text = << >>
  /\ rt = [ done |-> FALSE ]

AudIdle ==
  /\ versions = << >>
  /\ apc = "off"
  /\ deps_out = << >>
  /\ report = << >>
  /\ dumps = << >>

(***************************************************************************)
(* Main and UploadLlvm.  A process is one run of Main; the steps before    *)
(* UploadLlvm (build, audit, bundle) issue no remote request.  Each remote *)
(* request is one step; the code between two requests runs with the step   *)
(* of the request before it.                                               *)
(***************************************************************************)
Ended == { "published", "failed", "crashed" }

\* Main, lines 309-328: a new process reaches the call of UploadLlvm.
Main ==
  /\ pc \in { "idle" } \cup Ended
  /\ runs < MaxRuns
  /\ runs' = runs + 1
  /\ ended' = IF pc = "idle" THEN ended ELSE ended \cup { pc }
  /\ prev_end' = pc
  /\ prev_reqs' = Kinds(req_log)
  /\ pc' = "list"
  /\ response' = << >>
  /\ loop_i' = 0
  /\ del_asset' = 0
  /\ upload_url' = NoneUrl
  /\ req_log' = << >>
  /\ start_releases' = releases
  /\ UNCHANGED << args, releases, next_id >>
  /\ UNCHANGED << retVars, verVars, audVars >>

\* sys.exit inside UploadLlvm: Main does not catch it, the process ends.
Exit(req, id, status) ==
  /\ pc' = "failed"
  /\ req_log' = Append(req_log, LogEntry(req, id, status))
  /\ UNCHANGED << args, releases, next_id, response, loop_i, del_asset,
                  upload_url, start_releases, runs, ended, prev_end,
                  prev_reqs >>

\* Variants of the status tests with a plausible slip: only a server error
\* counts as a failure, or nothing does.
FailedOnServerError(status) == status >= 500
FailedNever(status) == FALSE

\* The status tests of lines 202, 230, 252 and 270.
ListFailed(status) == status # 200
DeleteFailed(status) == status # 204
CreateFailed(status) == status # 201
UploadFailed(status) == status # 201

\* UploadLlvm, lines 198-234 up to the first writing request.
GetReleases ==
  /\ pc = "list"
  /\ \E status \in ListStatuses :
       IF ListFailed(status)
         THEN Exit("list", 0, status)
         ELSE LET listed == IF status = 200 THEN releases ELSE << >>
                  next == ScanReleases(listed, 1, NoneUrl, args)
              IN
              /\ response' = listed
              /\ pc' = next.pc
              /\ loop_i' = next.loop_i
              /\ del_asset' = next.del_asset
              /\ upload_url' = next.upload_url
              /\ req_log' = Append(req_log, LogEntry("list", 0, status))
              /\ UNCHANGED << args, releases, next_id, start_releases, runs, ended,
                              prev_end, prev_reqs >>
  /\ UNCHANGED << retVars, verVars, audVars >>

\* UploadLlvm, lines 221-234: the delete request, then the rest of the scan.
\* The store removes the asset when it answers 204.
DeleteAsset ==
  /\ pc = "delete"
  /\ \E status \in DeleteStatuses :
       IF DeleteFailed(status)
         THEN Exit("delete", del_asset, status)
         ELSE LET next == ScanReleases(response, loop_i + 1, upload_url, args) IN
              /\ releases' = IF status = 204
                               THEN RemoteDelete(releases, del_asset)
                               ELSE releases
              /\ pc' = next.pc
              /\ loop_i' = next.loop_i
              /\ del_asset' = next.del_asset
              /\ upload_url' = next.upload_url
              /\ req_log' = Append(req_log, LogEntry("delete", del_asset, status))
              /\ UNCHANGED << args, next_id, response, start_releases, runs, ended,
                              prev_end, prev_reqs >>
  /\ UNCHANGED << retVars, verVars, audVars >>

\* UploadLlvm, lines 236-256: the create request.  The store adds the
\* release when it answers 201.
CreateRelease ==
  /\ pc = "create"
  /\ \E status \in CreateStatuses :
       IF CreateFailed(status)
         THEN Exit("create", 0, status)
         ELSE /\ releases' = IF status = 201
                               THEN RemoteCreate(releases, next_id, args)
                               ELSE releases
              /\ next_id' = next_id + 1
              /\ upload_url' = IF status = 201 THEN MkUrl(next_id) ELSE NoneUrl
              /\ pc' = "upload"
              /\ req_log' = Append(req_log, LogEntry("create", next_id, status))
              /\ UNCHANGED << args, response, loop_i, del_asset, start_releases,
                              runs, ended, prev_end, prev_reqs >>
  /\ UNCHANGED << retVars, verVars, audVars >>

\* UploadLlvm, lines 258-272: the upload request.  The store adds the asset
\* when it answers 201.
UploadAsset ==
  /\ pc = "upload"
  /\ \E status \in UploadStatuses :
       IF UploadFailed(status)
         THEN Exit("upload", upload_url.rel, status)
         ELSE /\ releases' = IF status = 201
                               THEN RemoteUpload(releases, StripTemplate(upload_url),
                                                 next_id, BundleName(args))
                               ELSE releases
              /\ next_id' = next_id + 1
              /\ upload_url' = StripTemplate(upload_url)
              /\ pc' = "published"
              /\ req_log' = Append(req_log, LogEntry("upload", upload_url.rel, status))
              /\ UNCHANGED << args, response, loop_i, del_asset, start_releases,
                              runs, ended, prev_end, prev_reqs >>
  /\ UNCHANGED << retVars, verVars, audVars >>

\* The process is killed between two remote requests: the list request was
\* answered and the next request is not sent.
Crash ==
  /\ pc \in { "delete", "create", "upload" }
  /\ pc' = "crashed"
  /\ UNCHANGED << args, releases, next_id, response, loop_i, del_asset,
                  upload_url, req_log, start_releases, runs, ended, prev_end,
                  prev_reqs >>
  /\ UNCHANGED << retVars, verVars, audVars >>

PubInit ==
  /\ args \in ArgsPool
  /\ releases \in InitialRemotes(args)
  /\ next_id = FirstNewId
  /\ pc = "idle"
  /\ response = << >>
  /\ loop_i = 0
  /\ del_asset = 0
  /\ upload_url = NoneUrl
  /\ req_log = << >>
  /\ start_releases = releases
  /\ runs = 0
  /\ ended = {}
  /\ prev_end = "idle"
  /\ prev_reqs = << >>

Init == PubInit /\ RetIdle /\ VerIdle /\ AudIdle

Next == Main \/ GetReleases \/ DeleteAsset \/ CreateRelease \/ UploadAsset \/ Crash

Spec == Init /\ [][Next]_vars

(***************************************************************************)
(* Properties of the publish protocol.                                     *)
(***************************************************************************)
BundleTagged == ReleasesTagged(releases, GetBundleVersion(args))

\* C1: Publish convergence.  Whatever the earlier runs for the same version
\* and artifact did and wherever they failed, when a run ends published there
\* is exactly one release with the bundle version as its tag, and it holds
\* exactly one asset with the bundle filename.
C1_PublishConverges ==
  pc = "published" =>
    /\ Cardinality(BundleTagged) = 1
    /\ BundleAssetCount(releases, args) = 1

\* A run is published after a failed and a crashed one, and it had an asset
\* of the name to replace.
C1_Witness ==
  /\ pc = "published"
  /\ { "failed", "crashed" } \subseteq ended
  /\ BundleAssetCount(start_releases, args) = 1
  /\ BundleAssetCount(releases, args) = 1

\* C2: Asset-name uniqueness.  In every reachable state, also between the
\* requests of a run and after runs that failed or crashed, no release with
\* the bundle version as its tag holds more than one asset with the bundle
\* filename.
C2_AssetNameUnique ==
  \A i \in BundleTagged :
    Cardinality(AssetsNamed(releases[i], BundleName(args))) <= 1

\* A run crashed between its create and its upload, and a later run has
\* uploaded the asset to the release it left behind.
C2_Witness ==
  /\ prev_end = "crashed"
  /\ prev_reqs = << "list", "create" >>
  /\ pc = "published"
  /\ \E i \in BundleTagged :
       Cardinality(AssetsNamed(releases[i], BundleName(args))) = 1

\* The run started where a successful publish leaves the remote: the release
\* exists and holds an asset with the bundle filename.
StartedOnPublished ==
  /\ pc \notin { "idle", "off" }
  /\ Cardinality(ReleasesTagged(start_releases, GetBundleVersion(args))) = 1
  /\ BundleAssetCount(start_releases, args) = 1

\* C3: Second-run request ordering.  A run that starts where a successful
\* publish left the remote never issues a create request, issues at most one
\* delete and at most one upload, the upload only after the delete, and when
\* it ends published its requests are exactly list, delete, upload.
C3_SecondRunOrder ==
  StartedOnPublished =>
    /\ CountReq(req_log, "create") = 0
    /\ CountReq(req_log, "delete") <= 1
    /\ CountReq(req_log, "upload") <= 1
    /\ \A j \in 1..Len(req_log) :
         req_log[j].req = "upload" =>
           \E k \in 1..(j - 1) : req_log[k].req = "delete" /\ req_log[k].status = 204
    /\ pc = "published" => Kinds(req_log) = << "list", "delete", "upload" >>

\* The second of two runs, both published, has ended.
C3_Witness ==
  /\ StartedOnPublished
  /\ pc = "published"
  /\ prev_end = "published"
  /\ Kinds(req_log) = << "list", "delete", "upload" >>

\* C4 (as claimed): a process whose publish failed at delete, create or upload
\* ends only after the whole sequence was run again from the list request
\* max_retries more times.
C4_RetriedFromLocate ==
  ( /\ pc = "failed"
    /\ req_log[Len(req_log)].req \in { "delete", "create", "upload" } )
  => CountReq(req_log, "list") = max_retries + 1

\* The release a create request of the current process made.
CreatedReleases ==
  { i \in 1..Len(releases) :
      \E j \in 1..Len(req_log) :
        /\ req_log[j].req = "create"
        /\ req_log[j].status = 201
        /\ req_log[j].id = releases[i].id }

\* C8 (as claimed): a release created with a release-candidate number N is a
\* prerelease named with the suffix " RC<N>", and one created without a
\* number is no prerelease and carries no suffix.
C8_PrereleaseIffSuffix ==
  \A i \in CreatedReleases :
    IF args.release_candidate.given
      THEN /\ releases[i].prerelease
           /\ releases[i].name =
                "LLVM and Clang " \o args.version \o " RC"
                  \o ToString(args.release_candidate.n)
      ELSE /\ ~releases[i].prerelease
           /\ releases[i].name = "LLVM and Clang " \o args.version

\* The releases the store added after the first run started.
NewReleases == { i \in 1..Len(releases) : releases[i].id >= FirstNewId }

StartTagged == ReleasesTagged(start_releases, GetBundleVersion(args))

\* C12: No duplicate release after partial failure.  A release created by a
\* run whose upload then failed stays; the next run finds it listed and
\* issues no create.  Over all runs at most one release was created, it has
\* the bundle version as its tag, there is never a second release with that
\* tag, and a create request is issued only when no listed release has it.
C12_NoDuplicateRelease ==
  /\ Cardinality(BundleTagged) <= 1
  /\ Cardinality(NewReleases) <= 1
  /\ \A i \in NewReleases : releases[i].tag_name = GetBundleVersion(args)
  /\ pc = "create" => ReleasesTagged(response, GetBundleVersion(args)) = {}
  /\ CountReq(req_log, "create") > 0 => StartTagged = {}
  /\ ( pc = "failed" /\ Kinds(req_log) = << "list", "create", "upload" >> )
       => Cardinality(BundleTagged) = 1
  /\ ( prev_end = "failed" /\ prev_reqs = << "list", "create", "upload" >> )
       => /\ Cardinality(StartTagged) = 1
          /\ Cardinality(BundleTagged) = 1
          /\ CountReq(req_log, "create") = 0

\* The run after one that created the release and failed at the upload has
\* published with a list and an upload request.
C12_Witness ==
  /\ prev_end = "failed"
  /\ prev_reqs = << "list", "create", "upload" >>
  /\ pc = "published"
  /\ Kinds(req_log) = << "list", "upload" >>
  /\ Cardinality(NewReleases) = 1

\* C13: Delete failure aborts the attempt before Upload.  A delete request
\* answered with another status than 204 is the last request of its run: the
\* run has failed after list and delete, and the remote is as the run found
\* it, the old asset included.
C13_DeleteFailureAborts ==
  \A j \in 1..Len(req_log) :
    ( req_log[j].req = "delete" /\ req_log[j].status # 204 ) =>
      /\ pc = "failed"
      /\ Kinds(req_log) = << "list", "delete" >>
      /\ releases = start_releases
      /\ BundleAssetCount(releases, args) = 1

\* A run failed at its delete request.
C13_Witness ==
  /\ pc = "failed"
  /\ Len(req_log) = 2
  /\ req_log[2].req = "delete"
  /\ req_log[2].status = 404
  /\ BundleAssetCount(releases, args) = 1

\* The assets of a list that are not named `name`, in order.
RECURSIVE KeepOthers(_, _)
KeepOthers(assets, name) ==
  IF assets = << >> THEN << >>
  ELSE IF Head(assets).name = name THEN KeepOthers(Tail(assets), name)
  ELSE << Head(assets) >> \o KeepOthers(Tail(assets), name)

\* Release q is release r but for the assets with the bundle filename, and
\* is r itself when r has another tag than the bundle version.
Untouched(r, q) ==
  /\ q.id = r.id
  /\ q.tag_name = r.tag_name
  /\ r.tag_name # GetBundleVersion(args) => q = r
  /\ KeepOthers(q.assets, BundleName(args)) = KeepOthers(r.assets, BundleName(args))

\* C14: Frame of Reconcile.  No step of any run removes or changes a release
\* with another tag than the bundle version, same-named assets of it
\* included, and no step removes or changes an asset with another name than
\* the bundle filename.
C14_ReconcileFrame ==
  [][ \A i \in 1..Len(releases) :
        \E k \in 1..Len(releases') : Untouched(releases[i], releases'[k]) ]_vars

\* A run deleted and uploaded the bundle in the tagged release, which also
\* holds another asset, while a release with another tag holds an asset with
\* the bundle filename.
C14_Witness ==
  /\ pc = "published"
  /\ CountReq(req_log, "delete") = 1
  /\ \E i \in BundleTagged :
       AssetsNamed(releases[i], OTHER_ASSET) # {}
  /\ \E i \in 1..Len(releases) :
       /\ releases[i].tag_name # GetBundleVersion(args)
       /\ AssetsNamed(releases[i], BundleName(args)) # {}

\* The requests of the log that were answered with `status`.
Answered(log, req, status) ==
  { j \in 1..Len(log) : log[j].req = req /\ log[j].status = status }

\* C17: A failed delete-then-upload loses the old asset.  A run that ended
\* failed or crashed after its delete succeeded and without a successful
\* upload leaves no asset with the bundle filename under the release; the
\* next run starts without it, and the asset is there again exactly when that
\* run's upload has succeeded.
C17_FailedReplaceLosesAsset ==
  /\ ( /\ pc \in { "failed", "crashed" }
       /\ Answered(req_log, "delete", 204) # {}
       /\ Answered(req_log, "upload", 201) = {} )
     => BundleAssetCount(releases, args) = 0
  /\ ( \/ prev_end = "crashed" /\ prev_reqs = << "list", "delete" >>
       \/ prev_end = "failed" /\ prev_reqs = << "list", "delete", "upload" >> )
     => /\ BundleAssetCount(start_releases, args) = 0
        /\ BundleAssetCount(releases, args) =
             IF Answered(req_log, "upload", 201) # {} THEN 1 ELSE 0

\* A run deleted the asset and failed at the upload; the release holds no
\* asset with the bundle filename.
C17_Witness ==
  /\ pc = "failed"
  /\ Kinds(req_log) = << "list", "delete", "upload" >>
  /\ BundleAssetCount(start_releases, args) = 1
  /\ BundleAssetCount(releases, args) = 0

\* C18: Locate failure changes nothing.  A list request answered with
\* another status than 200 is the only request of its run: the run has
\* failed, and the remote is as the run found it.
C18_LocateFailureNoChange ==
  \A j \in 1..Len(req_log) :
    ( req_log[j].req = "list" /\ req_log[j].status # 200 ) =>
      /\ pc = "failed"
      /\ Len(req_log) = 1
      /\ releases = start_releases

\* A run failed at its list request, after a run that changed the remote.
C18_Witness ==
  /\ pc = "failed"
  /\ req_log = << LogEntry("list", 0, 500) >>
  /\ prev_end = "published"
  /\ releases = start_releases

(***************************************************************************)
(* Retries.  The wrapped function is given by what each of its invocations *)
(* does: return, or end in one of the program's failures.  sys.exit raises *)
(* SystemExit, both for a remote failure (UploadLlvm) and for a missing    *)
(* credential (ParseArguments); Version's comparisons raise ValueError.    *)
(***************************************************************************)
Outcomes == { "ok", "RemoteApiError", "ConfigurationError", "TypeMismatch" }

ExceptionClass(outcome) ==
  CASE outcome = "ok" -> "none"
    [] outcome \in { "RemoteApiError", "ConfigurationError" } -> "SystemExit"
    [] OTHER -> "ValueError"

\* Variants with a plausible slip: the budget test off by one, the sleep left
\* out.
ExhaustedOneEarly(n) == n >= max_retries
ExhaustedOneLate(n) == n > max_retries + 1
NoSleep(s) == s

\* except SystemExit as error
Caught(outcome) == ExceptionClass(outcome) = "SystemExit"

\* if nb_retries > max_retries
Exhausted(n) == n > max_retries

\* time.sleep( RETRY_INTERVAL )
Sleep(s) == Append(s, RETRY_INTERVAL)

\* One pass of the while loop of Retries: the call, and what follows it.
Retries ==
  /\ rpc = "loop"
  /\ calls < MaxCalls
  /\ calls' = calls + 1
  /\ LET outcome == op_plan[calls + 1] IN
       IF outcome = "ok"
         THEN /\ rpc' = "returned"
              /\ UNCHANGED << nb_retries, sleeps >>
       ELSE IF Caught(outcome)
         THEN /\ nb_retries' = nb_retries + 1
              /\ IF Exhausted(nb_retries + 1)
                   THEN rpc' = "exit" /\ UNCHANGED sleeps
                   ELSE rpc' = "loop" /\ sleeps' = Sleep(sleeps)
       ELSE /\ rpc' = "raised"
            /\ UNCHANGED << nb_retries, sleeps >>
  /\ UNCHANGED op_plan
  /\ UNCHANGED << pubVars, verVars, audVars >>

RetInit ==
  /\ op_plan \in [ 1..MaxCalls -> Outcomes ]
  /\ nb_retries = 0
  /\ calls = 0
  /\ sleeps = << >>
  /\ rpc = "loop"

InitRetries == RetInit /\ PubIdle /\ VerIdle /\ AudIdle

NextRetries == Retries

SpecRetries == InitRetries /\ [][NextRetries]_vars

\* The loop goes on while it can: every invocation of the function ends, and
\* so does every sleep.
SpecRetriesFair == SpecRetries /\ WF_vars(Retries)

(***************************************************************************)
(* Properties of Retries.                                                  *)
(***************************************************************************)
AlwaysFailsRetriably == \A i \in 1..MaxCalls : op_plan[i] = "RemoteApiError"

\* The function fails retriably on its first k invocations and then returns.
FailsThenSucceeds(k) ==
  /\ \A i \in 1..k : op_plan[i] = "RemoteApiError"
  /\ op_plan[k + 1] = "ok"

Intervals(n) == [ i \in 1..n |-> RETRY_INTERVAL ]

\* C5: Retry exhaustion.  With a function that fails retriably on every
\* invocation, Retries never returns and never invokes it a fifth time; it
\* leaves the loop after exactly 4 invocations, by the permanent failure.
C5_RetryExhaustion ==
  AlwaysFailsRetriably =>
    /\ rpc \in { "loop", "exit" }
    /\ calls <= 4
    /\ rpc = "loop" => calls < 4
    /\ rpc = "exit" => calls = 4 /\ nb_retries = 4

\* The permanent failure after four failed invocations.
C5_Witness ==
  AlwaysFailsRetriably /\ rpc = "exit" /\ calls = 4

\* C6: Retry then success.  With a function that fails retriably k <= 3 times
\* and then returns, Retries returns after exactly k + 1 invocations and k
\* sleeps of RETRY_INTERVAL; while it loops, every failed invocation so far
\* was followed by one sleep.
C6_RetryThenSuccess ==
  \A k \in 0..3 :
    FailsThenSucceeds(k) =>
      /\ rpc \in { "loop", "returned" }
      /\ rpc = "loop" => calls <= k /\ sleeps = Intervals(calls)
      /\ rpc = "returned" => calls = k + 1 /\ sleeps = Intervals(k)

\* Two failures, then success on the third invocation after two sleeps.
C6_Witness ==
  /\ FailsThenSucceeds(2)
  /\ rpc = "returned"
  /\ calls = 3
  /\ sleeps = << RETRY_INTERVAL, RETRY_INTERVAL >>

\* C7 (as claimed): a function that ends in a configuration error or a type
\* mismatch is invoked once; the failure leaves Retries at once, with no
\* sleep and no retry counted.
C7_NonRetriablePropagates ==
  ( calls >= 1 /\ op_plan[1] \in { "ConfigurationError", "TypeMismatch" } )
  => /\ calls = 1
     /\ rpc = "raised"
     /\ sleeps = << >>
     /\ nb_retries = 0

\* The function never raises anything but SystemExit.
OnlyRetriableFailures == \A i \in 1..MaxCalls : op_plan[i] = "ok" \/ Caught(op_plan[i])

\* The counts of Retries at any moment.
RetriesWithinBudget ==
  /\ calls <= 4
  /\ Len(sleeps) <= 3
  /\ nb_retries <= max_retries + 1
  /\ calls = nb_retries + ( IF rpc \in { "returned", "raised" } THEN 1 ELSE 0 )
  /\ rpc = "loop" => calls < 4
  /\ rpc # "exit" => Len(sleeps) = nb_retries
  /\ rpc = "exit" => nb_retries = max_retries + 1 /\ Len(sleeps) = nb_retries - 1

\* C19: Retries always terminates.  Whatever the function does on each
\* invocation, Retries leaves its loop; when the function only returns or
\* fails retriably, it leaves by returning or by the permanent failure.  It
\* never makes more than 4 invocations or 3 sleeps, the failure that exhausts
\* the budget is followed by no sleep, and nb_retries never exceeds
\* max_retries + 1.
C19_RetriesTerminates ==
  /\ []RetriesWithinBudget
  /\ <>(rpc # "loop")
  /\ OnlyRetriableFailures => <>(rpc \in { "returned", "exit" })

\* Four failed invocations of mixed kinds and three sleeps; a fifth
\* invocation, which would have returned, is not made.
C19_Witness ==
  /\ op_plan = << "RemoteApiError", "ConfigurationError", "RemoteApiError",
                  "RemoteApiError", "ok" >>
  /\ rpc = "exit"
  /\ calls = 4
  /\ nb_retries = 4
  /\ sleeps = Intervals(3)

(***************************************************************************)
(* Version: the comparisons.  A call either returns a value or raises.     *)
(***************************************************************************)
Return(v) == [ raised |-> "none", value |-> v ]
Raise(e) == [ raised |-> e, value |-> FALSE ]

MkVersion(major, minor, patch) ==
  [ type |-> "Version", major |-> major, minor |-> minor, patch |-> patch ]

IsVersion(x) == x.type = "Version"

\* Python's comparison of two tuples of integers.
TupleEq(s, t) == Len(s) = Len(t) /\ \A i \in 1..Len(s) : s[i] = t[i]

RECURSIVE TupleLt(_, _)
TupleLt(s, t) ==
  IF s = << >> THEN t # << >>
  ELSE IF t = << >> THEN FALSE
  ELSE IF Head(s) # Head(t) THEN Head(s) < Head(t)
  ELSE TupleLt(Tail(s), Tail(t))

AsTuple(v) == << v.major, v.minor, v.patch >>

\* A variant with a plausible slip: the patch component left out.
LtIgnoresPatch(self, other) ==
  IF ~IsVersion(other)
    THEN Raise("ValueError")
    ELSE Return(TupleLt(<< self.major, self.minor >>, << other.major, other.minor >>))

Version__eq__(self, other) ==
  IF ~IsVersion(other)
    THEN Raise("ValueError")
    ELSE Return(TupleEq(AsTuple(self), AsTuple(other)))

Version__lt__(self, other) ==
  IF ~IsVersion(other)
    THEN Raise("ValueError")
    ELSE Return(TupleLt(AsTuple(self), AsTuple(other)))

\* object.__ne__: the inverse of __eq__.
Version__ne__(self, other) ==
  LET r == Version__eq__(self, other) IN
    IF r.raised # "none" THEN r ELSE Return(~r.value)

\* functools.total_ordering: __gt__ from __lt__ and __ne__.
Version__gt__(self, other) ==
  LET r == Version__lt__(self, other) IN
    IF r.raised # "none" THEN r
    ELSE IF r.value THEN Return(FALSE)
    ELSE Version__ne__(self, other)

\* x == y and x < y where at least one operand is a Version: a left operand
\* of another type answers NotImplemented and the reflected method of the
\* Version runs.
PyEq(x, y) == IF IsVersion(x) THEN Version__eq__(x, y) ELSE Version__eq__(y, x)
PyLt(x, y) == IF IsVersion(x) THEN Version__lt__(x, y) ELSE Version__gt__(y, x)

VersionValues ==
  { MkVersion(a, b, c) : a \in 0..MaxComponent, b \in 0..MaxComponent,
                         c \in 0..MaxComponent }

OtherValues ==
  { [ type |-> "int" ], [ type |-> "str" ], [ type |-> "tuple" ],
    [ type |-> "NoneType" ] }

\* The comparisons of the three operands are evaluated.
Compare ==
  /\ ~cmp.done
  /\ cmp' = [ done |-> TRUE,
              eq_aa |-> PyEq(va, va), lt_aa |-> PyLt(va, va),
              eq_ab |-> PyEq(va, vb), eq_ba |-> PyEq(vb, va),
              lt_ab |-> PyLt(va, vb), lt_ba |-> PyLt(vb, va),
              lt_bc |-> PyLt(vb, vc), lt_ac |-> PyLt(va, vc) ]
  /\ UNCHANGED << va, vb, vc, text, rt >>
  /\ UNCHANGED << pubVars, retVars, audVars >>

VerInit ==
  /\ va \in VersionValues
  /\ vb \in VersionValues \cup OtherValues
  /\ vc \in VersionValues
  /\ cmp = [ done |-> FALSE ]
  /\ text = << >>
  /\ rt = [ done |-> FALSE ]

InitVersion == VerInit /\ PubIdle /\ RetIdle /\ AudIdle

NextVersion == Compare

SpecVersion == InitVersion /\ [][NextVersion]_vars

(***************************************************************************)
(* Properties of the comparisons.                                          *)
(***************************************************************************)
\* The lexicographic order on (major, minor, patch), written out.
LexLess(a, b) ==
  \/ a.major < b.major
  \/ a.major = b.major /\ a.minor < b.minor
  \/ a.major = b.major /\ a.minor = b.minor /\ a.patch < b.patch

SameComponents(a, b) ==
  a.major = b.major /\ a.minor = b.minor /\ a.patch = b.patch

ExactlyOne(p, q, r) ==
  (p /\ ~q /\ ~r) \/ (~p /\ q /\ ~r) \/ (~p /\ ~q /\ r)

Returned(r, v) == r.raised = "none" /\ r.value = v

\* C10: Version ordering.  Between Versions, < returns the lexicographic
\* order on (major, minor, patch) and == returns the equality of the three
\* components; < is irreflexive, antisymmetric and transitive, and exactly
\* one of a < b, a == b, b < a holds.  With an operand that is no Version,
\* == and <, in either order of the operands, raise an error and return no
\* boolean.
C10_VersionOrdering ==
  cmp.done =>
    /\ Returned(cmp.lt_aa, FALSE)
    /\ Returned(cmp.eq_aa, TRUE)
    /\ Returned(cmp.lt_ac, LexLess(va, vc))
    /\ IF IsVersion(vb)
         THEN /\ Returned(cmp.lt_ab, LexLess(va, vb))
              /\ Returned(cmp.lt_ba, LexLess(vb, va))
              /\ Returned(cmp.eq_ab, SameComponents(va, vb))
              /\ Returned(cmp.eq_ba, SameComponents(va, vb))
              /\ Returned(cmp.lt_bc, LexLess(vb, vc))
              /\ ~(cmp.lt_ab.value /\ cmp.lt_ba.value)
              /\ ExactlyOne(cmp.lt_ab.value, cmp.eq_ab.value, cmp.lt_ba.value)
              /\ (cmp.lt_ab.value /\ cmp.lt_bc.value) => cmp.lt_ac.value
         ELSE /\ cmp.eq_ab.raised = "ValueError"
              /\ cmp.eq_ba.raised = "ValueError"
              /\ cmp.lt_ab.raised = "ValueError"
              /\ cmp.lt_ba.raised = "ValueError"
              /\ cmp.lt_bc.raised = "ValueError"

\* A chain a < b < c decided by the minor and the patch component.
C10_Witness ==
  /\ cmp.done
  /\ IsVersion(vb)
  /\ va.major = vb.major /\ va.minor < vb.minor /\ va.patch > vb.patch
  /\ vb.major = vc.major /\ vb.minor = vc.minor /\ vb.patch < vc.patch
  /\ cmp.lt_ab.value /\ cmp.lt_bc.value /\ cmp.lt_ac.value

(***************************************************************************)
(* Version: construction from a string, and __repr__.  A string is the     *)
(* sequence of its pieces: every digit, '.', '_' and sign is a piece of    *)
(* its own, a run of other characters is one piece.                        *)
(***************************************************************************)
Digits == { "0", "1", "2", "3", "4", "5", "6", "7", "8", "9" }

DigitValue(c) == CHOOSE d \in 0..9 : ToString(d) = c

RECURSIVE DecimalValue(_)
DecimalValue(cs) ==
  IF cs = << >> THEN 0
  ELSE 10 * DecimalValue(SubSeq(cs, 1, Len(cs) - 1)) + DigitValue(cs[Len(cs)])

AllDigits(cs) == cs # << >> /\ \A i \in 1..Len(cs) : cs[i] \in Digits

\* int( text ): an optional sign and decimal digits; anything else raises.
PyInt(cs) ==
  IF AllDigits(cs) THEN Return(DecimalValue(cs))
  ELSE IF cs # << >> /\ cs[1] \in { "+", "-" } /\ AllDigits(Tail(cs))
    THEN Return(IF cs[1] = "-" THEN 0 - DecimalValue(Tail(cs))
                ELSE DecimalValue(Tail(cs)))
  ELSE Raise("ValueError")

\* text.split( sep ): the pieces between the separators, empty ones kept.
RECURSIVE Split(_, _)
Split(cs, sep) ==
  IF \A i \in 1..Len(cs) : cs[i] # sep THEN << cs >>
  ELSE LET k == CHOOSE i \in 1..Len(cs) :
                  cs[i] = sep /\ \A j \in 1..(i - 1) : cs[j] # sep
       IN << SubSeq(cs, 1, k - 1) >> \o Split(SubSeq(cs, k + 1, Len(cs)), sep)

\* Version.__init__
Version__init__(version) ==
  LET split_version == Split(version, ".")
      major == PyInt(split_version[1])
      minor == IF Len(split_version) > 1 THEN PyInt(split_version[2]) ELSE Return(0)
      patch == IF Len(split_version) > 2 THEN PyInt(split_version[3]) ELSE Return(0)
  IN IF major.raised # "none" THEN Raise(major.raised)
     ELSE IF minor.raised # "none" THEN Raise(minor.raised)
     ELSE IF patch.raised # "none" THEN Raise(patch.raised)
     ELSE Return(MkVersion(major.value, minor.value, patch.value))

RECURSIVE Join(_)
Join(cs) == IF cs = << >> THEN "" ELSE Head(cs) \o Join(Tail(cs))

\* str( n ) of an integer: its decimal digits, after '-' when it is negative.
RECURSIVE PyStr(_)
PyStr(n) ==
  IF n < 0 THEN << "-" >> \o PyStr(0 - n)
  ELSE IF n < 10 THEN << ToString(n) >>
  ELSE Append(PyStr(n \div 10), ToString(n % 10))

\* A variant with a plausible slip: a patch of 0 is left out.
ReprOmitsZeroPatch(self) ==
  IF self.patch = 0
    THEN PyStr(self.major) \o << "." >> \o PyStr(self.minor)
    ELSE PyStr(self.major) \o << "." >> \o PyStr(self.minor) \o << "." >>
           \o PyStr(self.patch)

\* Version.__repr__, piece by piece.
ReprPieces(self) ==
  PyStr(self.major) \o << "." >> \o PyStr(self.minor) \o << "." >> \o PyStr(self.patch)

\* Version.__repr__
Version__repr__(self) == Join(ReprPieces(self))

(***************************************************************************)
(* Construction of a Version from a string, its format, and construction   *)
(* from the format.                                                        *)
(***************************************************************************)
MaxTextLen == 5

\* The sequences over S of length at most n.
RECURSIVE SeqsUpTo(_, _)
SeqsUpTo(S, n) ==
  IF n = 0 THEN { << >> }
  ELSE SeqsUpTo(S, n - 1) \cup { Append(q, x) : q \in SeqsUpTo(S, n - 1), x \in S }

TextPieces == { "0", "1", "8", ".", "x" }

\* Version( text ), then repr of it, then Version( repr ).
RoundTrip ==
  /\ ~rt.done
  /\ LET v == Version__init__(text) IN
       rt' = IF v.raised # "none"
               THEN [ done |-> TRUE, raised |-> v.raised ]
               ELSE [ done |-> TRUE, raised |-> "none", version |-> v.value,
                      formatted |-> ReprPieces(v.value),
                      again |-> Version__init__(ReprPieces(v.value)) ]
  /\ UNCHANGED << va, vb, vc, cmp, text >>
  /\ UNCHANGED << pubVars, retVars, audVars >>

RtInit ==
  /\ va = 0
  /\ vb = 0
  /\ vc = 0
  /\ cmp = [ done |-> FALSE ]
  /\ text \in SeqsUpTo(TextPieces, MaxTextLen)
  /\ rt = [ done |-> FALSE ]

InitRoundTrip == RtInit /\ PubIdle /\ RetIdle /\ AudIdle

NextRoundTrip == RoundTrip

SpecRoundTrip == InitRoundTrip /\ [][NextRoundTrip]_vars

(***************************************************************************)
(* Properties of the round trip.                                           *)
(***************************************************************************)
\* text is 1 to 3 runs of digits with '.' between them.
IsDotted(cs) ==
  /\ Len(Split(cs, ".")) \in 1..3
  /\ \A i \in 1..Len(Split(cs, ".")) : AllDigits(Split(cs, ".")[i])

\* A run of digits without a leading zero, or the single digit 0.
IsCanonicalNumber(cs) == AllDigits(cs) /\ (Len(cs) > 1 => cs[1] # "0")

\* C11: Parse/format round trip.  A string of 1 to 3 dotted numeric
\* components constructs a Version; its format has exactly three components
\* in canonical decimal, those of the string with a missing minor or patch
\* as 0 ("18" gives "18.0.0", "18.1" gives "18.1.0"); constructing a Version
\* from the format gives a Version == to the first one.
C11_RoundTrip ==
  ( rt.done /\ IsDotted(text) ) =>
    /\ rt.raised = "none"
    /\ LET given == Split(text, ".")
           shown == Split(rt.formatted, ".")
       IN /\ Len(shown) = 3
          /\ \A i \in 1..3 :
               /\ IsCanonicalNumber(shown[i])
               /\ DecimalValue(shown[i]) =
                    IF i <= Len(given) THEN DecimalValue(given[i]) ELSE 0
    /\ rt.again = Return(rt.version)
    /\ Returned(Version__eq__(rt.again.value, rt.version), TRUE)
    /\ text = << "1", "8" >> => rt.formatted = << "1", "8", ".", "0", ".", "0" >>
    /\ text = << "1", "8", ".", "1" >> =>
         rt.formatted = << "1", "8", ".", "1", ".", "0" >>

\* "18.1" was constructed, formatted as "18.1.0" and constructed again.
C11_Witness ==
  /\ rt.done
  /\ text = << "1", "8", ".", "1" >>
  /\ rt.formatted = << "1", "8", ".", "1", ".", "0" >>
  /\ rt.again = Return(MkVersion(18, 1, 0))

(***************************************************************************)
(* CheckDependencies and CheckLlvm.  A line of the metadata dump is given  *)
(* by the pattern its head fits and by the rest of the line.               *)
(***************************************************************************)
NeededLine(name) == [ head |-> "NEEDED", rest |-> << name >> ]
VersionLine(rest) == [ head |-> "VERSION", rest |-> rest ]

LinePool ==
  { NeededLine("libc.so.6"),
    VersionLine(<< "GLIBC", "_", "2", ".", "1", "7" >>),
    VersionLine(<< "GLIBC", "_", "2", ".", "3", "4" >>),
    VersionLine(<< "GLIBC", "_", "2", ".", "2" >>),
    VersionLine(<< "GLIBCXX", "_", "3", ".", "4", ".", "2", "1" >>),
    VersionLine(<< "GLIBC", "_", "PRIVATE" >>),
    VersionLine(<< "GLIBC", "_", "2", ".", "3", ".", "4", ".", "x" >>) }

\* What objdump -p gives: its output, or a failure of the tool.
TOOL_FAILS == << [ head |-> "FAILED", rest |-> << >> ] >>
DumpResults == SeqsUpTo(LinePool, MaxLines) \cup { TOOL_FAILS }

\* OBJDUMP_NEEDED_REGEX.search( line )
NeededMatch(line) == line.head = "NEEDED"

\* OBJDUMP_VERSION_REGEX.search( line ): the greedy library group takes all
\* up to the last '_'.
VersionMatch(line) ==
  line.head = "VERSION" /\ \E i \in 1..Len(line.rest) : line.rest[i] = "_"

LastUnderscore(cs) ==
  CHOOSE i \in 1..Len(cs) : cs[i] = "_" /\ \A j \in (i + 1)..Len(cs) : cs[j] # "_"

LibraryGroup(line) == Join(SubSeq(line.rest, 1, LastUnderscore(line.rest) - 1))
VersionGroup(line) ==
  SubSeq(line.rest, LastUnderscore(line.rest) + 1, Len(line.rest))

\* A variant with a plausible slip: the list of the library is replaced by
\* the new version.
DictOverwrite(d, library, version) ==
  IF \E k \in 1..Len(d) : d[k].library = library
    THEN [ k \in 1..Len(d) |->
             IF d[k].library = library
               THEN [ d[k] EXCEPT !.values = << version >> ]
               ELSE d[k] ]
    ELSE Append(d, [ library |-> library, values |-> << version >> ])

\* versions[ library ].append( version ) on the defaultdict( list ).
DictAppend(d, library, version) ==
  IF \E k \in 1..Len(d) : d[k].library = library
    THEN [ k \in 1..Len(d) |->
             IF d[k].library = library
               THEN [ d[k] EXCEPT !.values = Append(@, version) ]
               ELSE d[k] ]
    ELSE Append(d, [ library |-> library, values |-> << version >> ])

\* The for loop of CheckDependencies over the lines from index i on.
RECURSIVE ScanLines(_, _, _, _)
ScanLines(output, i, dependencies, d) ==
  IF i > Len(output)
    THEN [ raised |-> "none", dependencies |-> dependencies, versions |-> d ]
  ELSE LET line == output[i]
           deps == IF NeededMatch(line)
                     THEN Append(dependencies, Join(line.rest))
                     ELSE dependencies
       IN IF VersionMatch(line)
            THEN LET version == Version__init__(VersionGroup(line)) IN
                   IF version.raised # "none"
                     THEN [ raised |-> version.raised, dependencies |-> deps,
                            versions |-> d ]
                     ELSE ScanLines(output, i + 1, deps,
                                    DictAppend(d, LibraryGroup(line), version.value))
            ELSE ScanLines(output, i + 1, deps, d)

\* CheckDependencies( name, path, versions )
CheckDependencies(output, d) ==
  IF output = TOOL_FAILS
    THEN [ raised |-> "CalledProcessError", dependencies |-> << >>, versions |-> d ]
    ELSE ScanLines(output, 1, << >>, d)

\* A variant with a plausible slip: the smallest value is kept.
RECURSIVE PyMin(_)
PyMin(values) ==
  IF Len(values) = 1 THEN values[1]
  ELSE LET m == PyMin(SubSeq(values, 1, Len(values) - 1))
           item == values[Len(values)]
       IN IF Version__lt__(item, m).value THEN item ELSE m

\* max( values ): the first item, replaced by every later item greater than it.
RECURSIVE PyMax(_)
PyMax(values) ==
  IF Len(values) = 1 THEN values[1]
  ELSE LET m == PyMax(SubSeq(values, 1, Len(values) - 1))
           item == values[Len(values)]
       IN IF Version__gt__(item, m).value THEN item ELSE m

\* CheckLlvm, lines 163-165: the lines printed after the header.
Maxima(d) ==
  [ k \in 1..Len(d) |->
      [ library |-> d[k].library, text |-> Version__repr__(PyMax(d[k].values)) ] ]

\* CheckLlvm, lines 158-159: the audit of libclang.
AuditLibclang ==
  /\ apc = "libclang"
  /\ \E output \in DumpResults :
       LET r == CheckDependencies(output, versions) IN
         /\ versions' = r.versions
         /\ dumps' = Append(dumps, output)
         /\ IF r.raised # "none"
              THEN apc' = "error" /\ UNCHANGED deps_out
              ELSE apc' = "clangd" /\ deps_out' = Append(deps_out, r.dependencies)
  /\ UNCHANGED report
  /\ UNCHANGED << pubVars, retVars, verVars >>

\* CheckLlvm, lines 160-165: the audit of clangd, then the maxima.
AuditClangd ==
  /\ apc = "clangd"
  /\ \E output \in DumpResults :
       LET r == CheckDependencies(output, versions) IN
         /\ versions' = r.versions
         /\ dumps' = Append(dumps, output)
         /\ IF r.raised # "none"
              THEN apc' = "error" /\ UNCHANGED << deps_out, report >>
              ELSE /\ apc' = "done"
                   /\ deps_out' = Append(deps_out, r.dependencies)
                   /\ report' = Maxima(r.versions)
  /\ UNCHANGED << pubVars, retVars, verVars >>

AudInit ==
  /\ versions = << >>
  /\ apc = "libclang"
  /\ deps_out = << >>
  /\ report = << >>
  /\ dumps = << >>

InitAudit == AudInit /\ PubIdle /\ RetIdle /\ VerIdle

NextAudit == AuditLibclang \/ AuditClangd

SpecAudit == InitAudit /\ [][NextAudit]_vars

(***************************************************************************)
(* Properties of the audit.                                                *)
(***************************************************************************)
RecordedLibraries == { versions[k].library : k \in 1..Len(versions) }
ReportedLibraries == { report[k].library : k \in 1..Len(report) }

ValuesOf(library) ==
  LET k == CHOOSE k \in 1..Len(versions) : versions[k].library = library
  IN { versions[k].values[i] : i \in 1..Len(versions[k].values) }

\* C9: Report maxima.  When the audit is done, the libraries reported are
\* the libraries with a versioned record, each reported once, none of them a
\* library that was only named as a dependency, and the value reported for a
\* library is the format of a version recorded for it that no other version
\* recorded for it exceeds in the order on (major, minor, patch).
C9_ReportMaxima ==
  apc = "done" =>
    /\ ReportedLibraries = RecordedLibraries
    /\ Len(report) = Cardinality(ReportedLibraries)
    /\ \A k \in 1..Len(report) :
         /\ \E v \in ValuesOf(report[k].library) :
              /\ report[k].text = Version__repr__(v)
              /\ \A w \in ValuesOf(report[k].library) : ~LexLess(v, w)
         /\ \A i \in 1..Len(deps_out) : \A j \in 1..Len(deps_out[i]) :
              deps_out[i][j] # report[k].library

\* The records ("GLIBC", 2.17), ("GLIBC", 2.34), ("GLIBC", 2.2) were added,
\* over both binaries, and 2.34 is reported.
C9_Witness ==
  /\ apc = "done"
  /\ versions = << [ library |-> "GLIBC",
                     values |-> << MkVersion(2, 17, 0), MkVersion(2, 34, 0),
                                   MkVersion(2, 2, 0) >> ] >>
  /\ report = << [ library |-> "GLIBC", text |-> "2.34.0" ] >>
  /\ Len(deps_out[1]) = 1

IsPrefix(s, t) == Len(s) <= Len(t) /\ SubSeq(t, 1, Len(s)) = s

\* The maxima of a dictionary as a mapping, whatever the insertion order.
MaximaOf(d) == { Maxima(d)[k] : k \in 1..Len(d) }

\* The maxima reported equal those of the audit of the same two dumps in the
\* other order.
SameMaximaSwapped ==
  LET clangd == CheckDependencies(dumps[2], << >>)
      libclang == CheckDependencies(dumps[1], clangd.versions)
  IN /\ clangd.raised = "none"
     /\ libclang.raised = "none"
     /\ MaximaOf(libclang.versions) = { report[k] : k \in 1..Len(report) }

\* C15: Report monotonicity.  In every step of the audit each library keeps
\* its place in the dictionary, the versions recorded for it before the step
\* are a prefix of those recorded after it, and its maximum does not
\* decrease; and the maxima reported when the audit is done are those the
\* audit of the same binaries in the other order reports.
C15_ReportMonotone ==
  /\ [][ /\ Len(versions') >= Len(versions)
         /\ \A k \in 1..Len(versions) :
              /\ versions'[k].library = versions[k].library
              /\ IsPrefix(versions[k].values, versions'[k].values)
              /\ ~LexLess(PyMax(versions'[k].values), PyMax(versions[k].values))
     ]_vars
  /\ [](apc = "done" => SameMaximaSwapped)

\* libclang needed GLIBC 2.34, clangd GLIBCXX 3.4.21 and GLIBC 2.17: the
\* maximum of GLIBC stays 2.34, and GLIBC is reported first.
C15_Witness ==
  /\ apc = "done"
  /\ dumps = << << VersionLine(<< "GLIBC", "_", "2", ".", "3", "4" >>) >>,
                << VersionLine(<< "GLIBCXX", "_", "3", ".", "4", ".", "2", "1" >>),
                   VersionLine(<< "GLIBC", "_", "2", ".", "1", "7" >>) >> >>
  /\ report = << [ library |-> "GLIBC", text |-> "2.34.0" ],
                 [ library |-> "GLIBCXX", text |-> "3.4.21" ] >>

\* A component of the version token is not what int() takes.
NotNumeric(token) ==
  \E i \in 1..Len(Split(token, ".")) : PyInt(Split(token, ".")[i]).raised # "none"

\* objdump failed, or a line of its output fits the version pattern with a
\* version token that has a component that is not numeric.
BadDump(output) ==
  \/ output = TOOL_FAILS
  \/ \E i \in 1..Len(output) :
       VersionMatch(output[i]) /\ NotNumeric(VersionGroup(output[i]))

\* C16: Audit aborts on parse or tool error.  When objdump failed for a
\* binary, or a line it gave fits the version pattern with a version token that
\* has a non-numeric component, the audit is in its error state, no maxima
\* were printed, and CheckLlvm has not returned to Main, which would go on to
\* bundling and publishing.
C16_AuditAborts ==
  ( \E i \in 1..Len(dumps) : BadDump(dumps[i]) ) =>
    /\ apc = "error"
    /\ report = << >>

====
